---- MODULE Spec2Model ----
(***************************************************************************)
(* A model of the excel-mcp server (src/src/excel_mcp_server.py): twelve   *)
(* tool operations over workbook files inside a workspace directory.       *)
(*                                                                         *)
(* State: the file system (disk), the last tool call and its result.       *)
(* Every operation is one action: resolve the path, load or create the     *)
(* workbook, resolve the sheet, do its effect in memory, save.             *)
(*                                                                         *)
(* Strings the code inspects character by character (paths, sheet names,   *)
(* colours) are sequences of one-character strings.  A path is the         *)
(* sequence of its components.  Only absolute paths are modelled, no       *)
(* symbolic links, and sheet names that differ pairwise when lowercased.   *)
(* Cell and range addresses are modelled parsed (column, row numbers);     *)
(* a range keeps whether it was written with a colon.                      *)
(***************************************************************************)
EXTENDS Integers, Sequences, FiniteSets, TLC

VARIABLES disk,      \* resolved path -> directory or workbook file
          call,      \* the last tool call (operation and arguments)
          result,    \* what that call returned or raised
          step,      \* ScenarioSpec: how many scripted calls were made
          onScript   \* ScenarioSpec: every call so far was the script's

vars == <<disk, call, result, step, onScript>>

(***************************************************************************)
(* Characters and strings                                                  *)
(***************************************************************************)
UpperChars == <<"A","B","C","D","E","F","G","H","I","J","K","L","M",
                "N","O","P","Q","R","S","T","U","V","W","X","Y","Z">>

LowerChars == <<"a","b","c","d","e","f","g","h","i","j","k","l","m",
                "n","o","p","q","r","s","t","u","v","w","x","y","z">>

\* A string is the sequence of its characters.  An ASCII character is
\* written as itself, any other as its code point ("U+FB00").  The
\* characters outside ASCII that the model knows are those str.strip()
\* removes and those below, which str.lower() / str.upper() turn into
\* other characters: U+00DF sharp s, U+0130 capital I with dot, U+0131
\* dotless i, U+017F long s, U+0307 combining dot, U+212A Kelvin sign,
\* U+FB00 ligature ff, U+FB01 ligature fi.
RECURSIVE Flatten(_)
Flatten(ss) == IF ss = << >> THEN << >> ELSE Head(ss) \o Flatten(Tail(ss))

\* str.lower() / str.upper() on one character: the characters it becomes
LowerChar(c) ==
    IF \E i \in 1..26 : UpperChars[i] = c
    THEN << LowerChars[CHOOSE i \in 1..26 : UpperChars[i] = c] >>
    ELSE IF c = "U+212A" THEN <<"k">>
    ELSE IF c = "U+0130" THEN <<"i", "U+0307">>
    ELSE <<c>>

UpperChar(c) ==
    IF \E i \in 1..26 : LowerChars[i] = c
    THEN << UpperChars[CHOOSE i \in 1..26 : LowerChars[i] = c] >>
    ELSE IF c = "U+FB00" THEN <<"F", "F">>
    ELSE IF c = "U+FB01" THEN <<"F", "I">>
    ELSE IF c = "U+00DF" THEN <<"S", "S">>
    ELSE IF c = "U+017F" THEN <<"S">>
    ELSE IF c = "U+0131" THEN <<"I">>
    ELSE <<c>>

Lower(s) == Flatten([i \in 1..Len(s) |-> LowerChar(s[i])])

Upper(s) == Flatten([i \in 1..Len(s) |-> UpperChar(s[i])])

Max(S) == CHOOSE x \in S : \A y \in S : y <= x

Min(S) == CHOOSE x \in S : \A y \in S : x <= y

\* A failed call: the error kind of the spec's taxonomy (the code raises
\* ValueError / FileNotFoundError / TypeError with the matching message).
Err(kind) == [ok |-> FALSE, err |-> kind]

(***************************************************************************)
(* Path Resolver                                                           *)
(***************************************************************************)
ALLOWED_EXTENSIONS == { <<".","x","l","s","x">>, <<".","x","l","s","m">> }

\* The EXCEL_MCP_ROOT environment variable: "/a/b"
EnvRoot == << <<"a">>, <<"b">> >>

\* Path.resolve() on an absolute path without symbolic links: "." is
\* dropped and ".." removes the component before it (at "/" it stays "/").
RECURSIVE ResolveFrom(_, _)
ResolveFrom(done, rest) ==
    IF rest = << >> THEN done
    ELSE LET c == Head(rest) IN
         IF c = <<".">> THEN ResolveFrom(done, Tail(rest))
         ELSE IF c = <<".", ".">>
              THEN ResolveFrom(IF done = << >> THEN done
                               ELSE SubSeq(done, 1, Len(done) - 1), Tail(rest))
              ELSE ResolveFrom(Append(done, c), Tail(rest))

Resolve(p) == ResolveFrom(<< >>, p)

_workspace_root == Resolve(EnvRoot)

\* Path.parents: every proper ancestor, "/" included
Parents(p) == { SubSeq(p, 1, k) : k \in 0..(Len(p) - 1) }

\* PurePath.suffix: from the last "." of the final component, unless that
\* dot is its first or its last character
Suffix(p) ==
    IF p = << >> THEN << >>
    ELSE LET name == p[Len(p)]
             dots == { i \in 1..Len(name) : name[i] = "." }
         IN IF dots = {} THEN << >>
            ELSE LET i == Max(dots) IN
                 IF 1 < i /\ i < Len(name) THEN SubSeq(name, i, Len(name))
                 ELSE << >>

Exists(d, p) == p \in DOMAIN d

IsDir(d, p) == d[p].kind = "dir"

_safe_path(d, file_path) ==
    LET candidate == Resolve(file_path)
        workspace_root == _workspace_root
    IN IF workspace_root \notin Parents(candidate) /\ candidate # workspace_root
       THEN Err("OutOfWorkspace")
       ELSE IF Lower(Suffix(candidate)) \notin ALLOWED_EXTENSIONS
       THEN Err("UnsupportedExtension")
       ELSE IF Exists(d, candidate) /\ IsDir(d, candidate)
       THEN Err("PathIsDirectory")
       ELSE [ok |-> TRUE, path |-> candidate]

(***************************************************************************)
(* Cell values, styles and the stored form of a cell                       *)
(***************************************************************************)
\* Python values a caller can pass: text, number, boolean, None
Str(s) == [k |-> "str", s |-> s]

Num(n) == [k |-> "num", n |-> n]

Bool(b) == [k |-> "bool", b |-> b]

None == [k |-> "none"]

\* An optional keyword argument: << >> is None, <<x>> is the value x
Nothing == << >>

Some(x) == <<x>>

\* A cell's style as far as format_range sets it.  A new cell has the
\* workbook's default style.
DefaultStyle ==
    [bold |-> FALSE, wrap_text |-> Nothing, horizontal |-> Nothing,
     vertical |-> Nothing, number_format |-> "General", fill |-> Nothing]

\* Cell.has_style
has_style(cell) == cell.st # DefaultStyle

\* A cell of a loaded worksheet: its value and its style
EmptyCell == [v |-> None, st |-> DefaultStyle]

\* Cell.value = v (Cell._bind_value): the value is kept as given
BindValue(cell, v) == [cell EXCEPT !.v = v]

\* The <c> element the writer emits for a cell (cell/_writer.py): nothing
\* but the attributes when the value is None or the empty string, text as
\* an inline string, a number or a boolean in <v>.
WriteCellXml(cell) ==
    LET v == cell.v IN
    IF v = None THEN [t |-> "n", st |-> cell.st]
    ELSE IF v.k = "str"
    THEN IF v.s = "" THEN [t |-> "inlineStr", st |-> cell.st]
         ELSE [t |-> "inlineStr", is |-> v.s, st |-> cell.st]
    ELSE IF v.k = "num" THEN [t |-> "n", v |-> v.n, st |-> cell.st]
    ELSE [t |-> "b", v |-> IF v.b THEN 1 ELSE 0, st |-> cell.st]

\* The cell the reader binds for a <c> element (worksheet/_reader.py)
ParseCell(el) ==
    LET fields == DOMAIN el IN
    IF el.t = "inlineStr"
    THEN [v |-> IF "is" \in fields THEN Str(el.is) ELSE None, st |-> el.st]
    ELSE IF "v" \notin fields THEN [v |-> None, st |-> el.st]
    ELSE IF el.t = "b" THEN [v |-> Bool(el.v # 0), st |-> el.st]
    ELSE [v |-> Num(el.v), st |-> el.st]

(***************************************************************************)
(* Workbooks in memory and on disk                                         *)
(***************************************************************************)
\* A worksheet in memory: its title and its cells, <<row, column>> -> cell
\* (Worksheet._cells).  A workbook is the sequence of its sheets.
NoCells == [p \in {} |-> EmptyCell]

\* Workbook(): one sheet, "Sheet"
DefaultTitle == <<"S","h","e","e","t">>

NewWorkbook == << [title |-> DefaultTitle, cells |-> NoCells] >>

sheetnames(wb) == [i \in 1..Len(wb) |-> wb[i].title]

Titles(wb) == { wb[i].title : i \in 1..Len(wb) }

SheetIndex(wb, name) == CHOOSE i \in 1..Len(wb) : wb[i].title = name

\* The writer skips a cell that has neither a value nor a style
SaveSheet(ws) ==
    LET kept == { p \in DOMAIN ws.cells :
                    ws.cells[p].v # None \/ has_style(ws.cells[p]) }
    IN [title |-> ws.title, cells |-> [p \in kept |-> WriteCellXml(ws.cells[p])]]

LoadSheet(fs) ==
    [title |-> fs.title, cells |-> [p \in DOMAIN fs.cells |-> ParseCell(fs.cells[p])]]

Dir == [kind |-> "dir"]

\* wb.save(path): the file at path is replaced by the written workbook
Save(d, path, wb) ==
    LET file == [kind |-> "file",
                 sheets |-> [i \in 1..Len(wb) |-> SaveSheet(wb[i])]]
    IN [q \in DOMAIN d \cup {path} |-> IF q = path THEN file ELSE d[q]]

\* load_workbook(path)
load_workbook(d, path) ==
    [i \in 1..Len(d[path].sheets) |-> LoadSheet(d[path].sheets[i])]

\* path.parent.mkdir(parents=True, exist_ok=True): the missing directories
\* down to dir are made.  mkdir raises FileExistsError when dir is a
\* regular file and NotADirectoryError when a directory above it is one,
\* and then makes nothing.
Mkdirs(d, dir) ==
    LET made == { SubSeq(dir, 1, k) : k \in 0..Len(dir) }
    IN IF Exists(d, dir) /\ ~IsDir(d, dir) THEN Err("FileExistsError")
       ELSE IF \E q \in made : Exists(d, q) /\ ~IsDir(d, q)
       THEN Err("NotADirectoryError")
       ELSE [ok |-> TRUE,
             disk |-> [q \in DOMAIN d \cup made |->
                          IF q \in DOMAIN d THEN d[q] ELSE Dir]]

\* Returns the workbook and the disk, on which a missing file was created
_load_or_create_workbook(d, path, create_if_missing) ==
    IF Exists(d, path)
    THEN [ok |-> TRUE, wb |-> load_workbook(d, path), disk |-> d]
    ELSE IF ~create_if_missing THEN Err("WorkbookNotFound")
    ELSE LET md == Mkdirs(d, SubSeq(path, 1, Len(path) - 1))
             wb == NewWorkbook
         IN IF ~md.ok THEN md
            ELSE [ok |-> TRUE, wb |-> wb, disk |-> Save(md.disk, path, wb)]

(***************************************************************************)
(* Sheet Resolver                                                          *)
(***************************************************************************)
MaxSheetNameLen == 31

InvalidChars == {"[", "]", ":", "*", "?", "/", "\\"}

_validate_sheet_name(sheet_name) ==
    IF sheet_name = << >> \/ Len(sheet_name) > MaxSheetNameLen
    THEN Err("InvalidSheetName")
    ELSE IF \E i \in 1..Len(sheet_name) : sheet_name[i] \in InvalidChars
    THEN Err("InvalidSheetName")
    ELSE [ok |-> TRUE]

\* Returns the workbook (with the sheet appended when it was created) and
\* the sheet's index in it
_ensure_sheet(wb, sheet_name, create_if_missing) ==
    LET valid == _validate_sheet_name(sheet_name) IN
    IF ~valid.ok THEN valid
    ELSE IF sheet_name \in Titles(wb)
    THEN [ok |-> TRUE, wb |-> wb, idx |-> SheetIndex(wb, sheet_name)]
    ELSE IF ~create_if_missing THEN Err("SheetNotFound")
    ELSE [ok |-> TRUE,
          wb |-> Append(wb, [title |-> sheet_name, cells |-> NoCells]),
          idx |-> Len(wb) + 1]

\* The three steps every cell operation starts with.  Returns the disk
\* (after a file creation), the workbook and the sheet's index, or the
\* error and the disk as the failed call leaves it.
Open(d, file_path, sheet_name, create_if_missing) ==
    LET sp == _safe_path(d, file_path) IN
    IF ~sp.ok THEN [ok |-> FALSE, err |-> sp.err, disk |-> d]
    ELSE LET lw == _load_or_create_workbook(d, sp.path, create_if_missing) IN
         IF ~lw.ok THEN [ok |-> FALSE, err |-> lw.err, disk |-> d]
         ELSE LET es == _ensure_sheet(lw.wb, sheet_name, create_if_missing) IN
              IF ~es.ok THEN [ok |-> FALSE, err |-> es.err, disk |-> lw.disk]
              ELSE [ok |-> TRUE, path |-> sp.path, disk |-> lw.disk,
                    wb |-> es.wb, idx |-> es.idx]

(***************************************************************************)
(* Worksheet cells: the library calls the operations make                  *)
(***************************************************************************)
\* Worksheet.max_row, max_column, min_column: 1 on a sheet with no cells
max_row(cells) == IF DOMAIN cells = {} THEN 1 ELSE Max({ p[1] : p \in DOMAIN cells })

max_column(cells) == IF DOMAIN cells = {} THEN 1 ELSE Max({ p[2] : p \in DOMAIN cells })

min_row(cells) == IF DOMAIN cells = {} THEN 1 ELSE Min({ p[1] : p \in DOMAIN cells })

min_column(cells) == IF DOMAIN cells = {} THEN 1 ELSE Min({ p[2] : p \in DOMAIN cells })

Rect(r1, r2, c1, c2) == (r1..r2) \X (c1..c2)

\* Worksheet._get_cell on every position of a block (ws[...], iter_rows,
\* iter_cols): a position that has no cell yet gets an empty one
Materialize(cells, block) ==
    [p \in DOMAIN cells \cup block |-> IF p \in DOMAIN cells THEN cells[p] ELSE EmptyCell]

CellValue(cells, r, c) == IF <<r, c>> \in DOMAIN cells THEN cells[<<r, c>>].v ELSE None

\* Worksheet._move_cell: the cell at k goes to k + offset, overwriting
\* what is there, and leaves k
_move_cell(cells, k, row_offset, col_offset) ==
    LET cell == IF k \in DOMAIN cells THEN cells[k] ELSE EmptyCell
        new == <<k[1] + row_offset, k[2] + col_offset>>
    IN [p \in (DOMAIN cells \cup {new}) \ {k} |-> IF p = new THEN cell ELSE cells[p]]

\* The loop of _move_cells over the keys sorted on `key` (1: row, 2: column),
\* from the end when `reverse`
RECURSIVE MoveLoop(_, _, _, _, _, _)
MoveLoop(cells, pending, key, reverse, row_offset, col_offset) ==
    IF pending = {} THEN cells
    ELSE LET k == CHOOSE k \in pending : \A k2 \in pending :
                     IF reverse THEN k2[key] <= k[key] ELSE k[key] <= k2[key]
         IN MoveLoop(_move_cell(cells, k, row_offset, col_offset),
                     pending \ {k}, key, reverse, row_offset, col_offset)

\* The same without the reversal for an insertion: a moved cell is moved
\* again, or lands on one not yet moved
_move_cells_forward(cells, min_r, min_c, offset, row_or_col) ==
    LET filled == IF row_or_col = "row"
                  THEN Materialize(cells, Rect(min_r, max_row(cells), 1, max_column(cells)))
                  ELSE Materialize(cells, Rect(1, max_row(cells), min_c, max_column(cells)))
        pending == { k \in DOMAIN filled :
                       ~(min_r > 0 /\ k[1] < min_r) /\ ~(min_c > 0 /\ k[2] < min_c) }
    IN IF row_or_col = "row"
       THEN MoveLoop(filled, pending, 1, FALSE, offset, 0)
       ELSE MoveLoop(filled, pending, 2, FALSE, 0, offset)

\* Worksheet._move_cells: min_r / min_c is 0 where the library passes None
_move_cells(cells, min_r, min_c, offset, row_or_col) ==
    LET reverse == offset > 0
        filled == IF row_or_col = "row"
                  THEN Materialize(cells, Rect(min_r, max_row(cells), 1, max_column(cells)))
                  ELSE Materialize(cells, Rect(1, max_row(cells), min_c, max_column(cells)))
        pending == { k \in DOMAIN filled :
                       ~(min_r > 0 /\ k[1] < min_r) /\ ~(min_c > 0 /\ k[2] < min_c) }
    IN IF row_or_col = "row"
       THEN MoveLoop(filled, pending, 1, reverse, offset, 0)
       ELSE MoveLoop(filled, pending, 2, reverse, 0, offset)

\* worksheet._gutter: the rows (columns) a deletion does not overwrite
_gutter(idx, offset, max_val) ==
    LET lo == IF max_val + 1 - offset > idx THEN max_val + 1 - offset ELSE idx
        hi == IF idx + offset < max_val THEN idx + offset ELSE max_val
    IN lo..hi

ws_insert_rows(cells, idx, amount) == _move_cells(cells, idx, 0, amount, "row")

ws_insert_cols(cells, idx, amount) == _move_cells(cells, 0, idx, amount, "column")

ws_delete_rows(cells, idx, amount) ==
    LET remainder == _gutter(idx, amount, max_row(cells))
        moved == _move_cells(cells, idx + amount, 0, 0 - amount, "row")
        gone == remainder \X (min_column(moved)..max_column(moved))
    IN [p \in DOMAIN moved \ gone |-> moved[p]]

ws_delete_cols(cells, idx, amount) ==
    LET remainder == _gutter(idx, amount, max_column(cells))
        moved == _move_cells(cells, 0, idx + amount, 0 - amount, "column")
        gone == (min_row(moved)..max_row(moved)) \X remainder
    IN [p \in DOMAIN moved \ gone |-> moved[p]]

\* A range address "A1:B2" parsed (range_boundaries); colon is FALSE for
\* the one-cell form "A1"
Range(r1, c1, r2, c2) ==
    [min_row |-> r1, min_col |-> c1, max_row |-> r2, max_col |-> c2, colon |-> TRUE]

OneCell(r, c) ==
    [min_row |-> r, min_col |-> c, max_row |-> r, max_col |-> c, colon |-> FALSE]

Block(rng) == Rect(rng.min_row, rng.max_row, rng.min_col, rng.max_col)

\* A cell address "B2" parsed
Addr(r, c) == [row |-> r, col |-> c]

(***************************************************************************)
(* Colours                                                                 *)
(***************************************************************************)
\* The characters str.strip() removes from both ends: the 29 characters
\* for which str.isspace() is true
Whitespace ==
    {" ", "\t", "\n", "\r", "\f", "U+000B", "U+001C", "U+001D", "U+001E",
     "U+001F", "U+0085", "U+00A0", "U+1680", "U+2000", "U+2001", "U+2002",
     "U+2003", "U+2004", "U+2005", "U+2006", "U+2007", "U+2008", "U+2009",
     "U+200A", "U+2028", "U+2029", "U+202F", "U+205F", "U+3000"}

\* The characters openpyxl accepts in a colour
HexChars == {"0","1","2","3","4","5","6","7","8","9",
             "A","B","C","D","E","F","a","b","c","d","e","f"}

RECURSIVE LStrip(_, _)
LStrip(s, chars) ==
    IF s # << >> /\ Head(s) \in chars THEN LStrip(Tail(s), chars) ELSE s

RECURSIVE RStrip(_, _)
RStrip(s, chars) ==
    IF s # << >> /\ s[Len(s)] \in chars THEN RStrip(SubSeq(s, 1, Len(s) - 1), chars) ELSE s

\* fill_hex.strip().lstrip("#")
StripColor(fill_hex) == LStrip(RStrip(LStrip(fill_hex, Whitespace), Whitespace), {"#"})

FillLen == 6

\* PatternFill(fill_type="solid", fgColor=color): openpyxl takes a colour of
\* six (or eight) hexadecimal characters and raises its own ValueError
\* ("Colors must be aRGB hex values") for any other text
PatternFill(color) ==
    IF Len(color) \in {6, 8} /\ \A i \in 1..Len(color) : color[i] \in HexChars
    THEN [ok |-> TRUE, fill |-> Some(color)]
    ELSE Err("ColorNotHex")

\* One cell of format_range's loop: the cell formatted, or the error
FormatCell(cell, f) ==
    LET st0 == cell.st
        st1 == IF f.bold # Nothing THEN [st0 EXCEPT !.bold = f.bold[1]] ELSE st0
        st2 == IF f.wrap_text # Nothing \/ f.horizontal # Nothing \/ f.vertical # Nothing
               THEN [st1 EXCEPT
                       !.horizontal = IF f.horizontal # Nothing THEN f.horizontal ELSE @,
                       !.vertical = IF f.vertical # Nothing THEN f.vertical ELSE @,
                       !.wrap_text = IF f.wrap_text # Nothing THEN f.wrap_text ELSE @]
               ELSE st1
        st3 == IF f.number_format # Nothing
               THEN [st2 EXCEPT !.number_format = f.number_format[1]] ELSE st2
    IN IF f.fill_hex = Nothing THEN [ok |-> TRUE, cell |-> [cell EXCEPT !.st = st3]]
       ELSE LET color == StripColor(f.fill_hex[1]) IN
            IF Len(color) # FillLen THEN Err("InvalidColor")
            ELSE LET pf == PatternFill(Upper(color)) IN
                 IF ~pf.ok THEN pf
                 ELSE [ok |-> TRUE,
                       cell |-> [cell EXCEPT !.st = [st3 EXCEPT !.fill = pf.fill]]]

(***************************************************************************)
(* The twelve operations, each as a function of the disk and the           *)
(* arguments: the disk the call leaves and what it returns or raises       *)
(***************************************************************************)
Fail(d, kind) == [disk |-> d, res |-> Err(kind)]

SetCells(wb, idx, cells) == [wb EXCEPT ![idx].cells = cells]

list_sheets(d, file_path, create_if_missing) ==
    LET sp == _safe_path(d, file_path) IN
    IF ~sp.ok THEN Fail(d, sp.err)
    ELSE LET lw == _load_or_create_workbook(d, sp.path, create_if_missing) IN
         IF ~lw.ok THEN Fail(d, lw.err)
         ELSE [disk |-> lw.disk, res |-> [ok |-> TRUE, sheets |-> sheetnames(lw.wb)]]

\* The same, saving the sheet that create_if_missing made
read_range_saving(d, file_path, sheet_name, cell_range, create_if_missing) ==
    LET o == Open(d, file_path, sheet_name, create_if_missing) IN
    IF ~o.ok THEN Fail(o.disk, o.err)
    ELSE IF ~cell_range.colon THEN Fail(o.disk, "TypeError")
    ELSE LET cells == o.wb[o.idx].cells
             nr == cell_range.max_row - cell_range.min_row + 1
             nc == cell_range.max_col - cell_range.min_col + 1
         IN [disk |-> Save(o.disk, o.path, o.wb),
             res |-> [ok |-> TRUE,
                      values |-> [i \in 1..nr |-> [j \in 1..nc |->
                          CellValue(cells, cell_range.min_row + i - 1,
                                    cell_range.min_col + j - 1)]]]]

\* ws["A1:B2"] is a tuple of rows of cells; ws["A1"] is one cell, and
\* iterating over it raises TypeError
read_range(d, file_path, sheet_name, cell_range, create_if_missing) ==
    LET o == Open(d, file_path, sheet_name, create_if_missing) IN
    IF ~o.ok THEN Fail(o.disk, o.err)
    ELSE IF ~cell_range.colon THEN Fail(o.disk, "TypeError")
    ELSE LET cells == o.wb[o.idx].cells
             nr == cell_range.max_row - cell_range.min_row + 1
             nc == cell_range.max_col - cell_range.min_col + 1
         IN [disk |-> o.disk,
             res |-> [ok |-> TRUE,
                      values |-> [i \in 1..nr |-> [j \in 1..nc |->
                          CellValue(cells, cell_range.min_row + i - 1,
                                    cell_range.min_col + j - 1)]]]]

write_cell(d, file_path, sheet_name, cell, value, create_if_missing) ==
    LET o == Open(d, file_path, sheet_name, create_if_missing) IN
    IF ~o.ok THEN Fail(o.disk, o.err)
    ELSE LET p == <<cell.row, cell.col>>
             cells == Materialize(o.wb[o.idx].cells, {p})
             written == [cells EXCEPT ![p] = BindValue(@, value)]
         IN [disk |-> Save(o.disk, o.path, SetCells(o.wb, o.idx, written)),
             res |-> [ok |-> TRUE, value |-> value, saved |-> TRUE]]

RECURSIVE SumLen(_)
SumLen(rows) == IF rows = << >> THEN 0 ELSE Len(Head(rows)) + SumLen(Tail(rows))

\* ws.cell(row, column, value=v) leaves the cell's value alone when v is None
write_range(d, file_path, sheet_name, start_cell, values, create_if_missing) ==
    LET o == Open(d, file_path, sheet_name, create_if_missing) IN
    IF ~o.ok THEN Fail(o.disk, o.err)
    ELSE LET start_row == start_cell.row
             start_col == start_cell.col
             at == { <<i, j>> : i \in 1..Len(values), j \in 1..Max({0} \cup
                        { Len(values[i2]) : i2 \in 1..Len(values) }) }
             used == { ij \in at : ij[2] <= Len(values[ij[1]]) }
             pos(ij) == <<start_row + ij[1] - 1, start_col + ij[2] - 1>>
             cells == Materialize(o.wb[o.idx].cells,
                                  {<<start_row, start_col>>} \cup { pos(ij) : ij \in used })
             written == [p \in DOMAIN cells |->
                           IF \E ij \in used : pos(ij) = p /\ values[ij[1]][ij[2]] # None
                           THEN LET ij == CHOOSE ij \in used : pos(ij) = p
                                IN BindValue(cells[p], values[ij[1]][ij[2]])
                           ELSE cells[p]]
         IN [disk |-> Save(o.disk, o.path, SetCells(o.wb, o.idx, written)),
             res |-> [ok |-> TRUE, rows |-> Len(values),
                      written_cells |-> SumLen(values), saved |-> TRUE]]

insert_rows(d, file_path, sheet_name, idx, amount, create_if_missing) ==
    IF idx < 1 \/ amount < 1 THEN Fail(d, "InvalidIndex")
    ELSE LET o == Open(d, file_path, sheet_name, create_if_missing) IN
         IF ~o.ok THEN Fail(o.disk, o.err)
         ELSE LET cells == ws_insert_rows(o.wb[o.idx].cells, idx, amount)
              IN [disk |-> Save(o.disk, o.path, SetCells(o.wb, o.idx, cells)),
                  res |-> [ok |-> TRUE, saved |-> TRUE]]

delete_rows(d, file_path, sheet_name, idx, amount, create_if_missing) ==
    IF idx < 1 \/ amount < 1 THEN Fail(d, "InvalidIndex")
    ELSE LET o == Open(d, file_path, sheet_name, create_if_missing) IN
         IF ~o.ok THEN Fail(o.disk, o.err)
         ELSE LET cells == ws_delete_rows(o.wb[o.idx].cells, idx, amount)
              IN [disk |-> Save(o.disk, o.path, SetCells(o.wb, o.idx, cells)),
                  res |-> [ok |-> TRUE, saved |-> TRUE]]

insert_columns(d, file_path, sheet_name, idx, amount, create_if_missing) ==
    IF idx < 1 \/ amount < 1 THEN Fail(d, "InvalidIndex")
    ELSE LET o == Open(d, file_path, sheet_name, create_if_missing) IN
         IF ~o.ok THEN Fail(o.disk, o.err)
         ELSE LET cells == ws_insert_cols(o.wb[o.idx].cells, idx, amount)
              IN [disk |-> Save(o.disk, o.path, SetCells(o.wb, o.idx, cells)),
                  res |-> [ok |-> TRUE, saved |-> TRUE]]

delete_columns(d, file_path, sheet_name, idx, amount, create_if_missing) ==
    IF idx < 1 \/ amount < 1 THEN Fail(d, "InvalidIndex")
    ELSE LET o == Open(d, file_path, sheet_name, create_if_missing) IN
         IF ~o.ok THEN Fail(o.disk, o.err)
         ELSE LET cells == ws_delete_cols(o.wb[o.idx].cells, idx, amount)
              IN [disk |-> Save(o.disk, o.path, SetCells(o.wb, o.idx, cells)),
                  res |-> [ok |-> TRUE, saved |-> TRUE]]

\* The same without the check that the new name is free
rename_sheet_unchecked(d, file_path, old_name, new_name) ==
    LET valid == _validate_sheet_name(new_name) IN
    IF ~valid.ok THEN Fail(d, valid.err)
    ELSE LET sp == _safe_path(d, file_path) IN
    IF ~sp.ok THEN Fail(d, sp.err)
    ELSE LET lw == _load_or_create_workbook(d, sp.path, FALSE) IN
    IF ~lw.ok THEN Fail(d, lw.err)
    ELSE IF old_name \notin Titles(lw.wb) THEN Fail(d, "SheetNotFound")
    ELSE LET wb == [lw.wb EXCEPT ![SheetIndex(lw.wb, old_name)].title = new_name]
         IN [disk |-> Save(lw.disk, sp.path, wb),
             res |-> [ok |-> TRUE, saved |-> TRUE]]

rename_sheet(d, file_path, old_name, new_name) ==
    LET valid == _validate_sheet_name(new_name) IN
    IF ~valid.ok THEN Fail(d, valid.err)
    ELSE LET sp == _safe_path(d, file_path) IN
    IF ~sp.ok THEN Fail(d, sp.err)
    ELSE LET lw == _load_or_create_workbook(d, sp.path, FALSE) IN
    IF ~lw.ok THEN Fail(d, lw.err)
    ELSE IF old_name \notin Titles(lw.wb) THEN Fail(d, "SheetNotFound")
    ELSE IF new_name \in Titles(lw.wb) THEN Fail(d, "SheetNameCollision")
    ELSE LET wb == [lw.wb EXCEPT ![SheetIndex(lw.wb, old_name)].title = new_name]
         IN [disk |-> Save(lw.disk, sp.path, wb),
             res |-> [ok |-> TRUE, saved |-> TRUE]]

RemoveAt(seq, i) == SubSeq(seq, 1, i - 1) \o SubSeq(seq, i + 1, Len(seq))

\* The same without the check that a sheet is left
delete_sheet_unchecked(d, file_path, sheet_name) ==
    LET sp == _safe_path(d, file_path) IN
    IF ~sp.ok THEN Fail(d, sp.err)
    ELSE LET lw == _load_or_create_workbook(d, sp.path, FALSE) IN
    IF ~lw.ok THEN Fail(d, lw.err)
    ELSE IF sheet_name \notin Titles(lw.wb) THEN Fail(d, "SheetNotFound")
    ELSE LET wb == RemoveAt(lw.wb, SheetIndex(lw.wb, sheet_name))
         IN [disk |-> Save(lw.disk, sp.path, wb),
             res |-> [ok |-> TRUE, remaining_sheets |-> sheetnames(wb), saved |-> TRUE]]

\* The same with the two checks in the other order
delete_sheet_count_first(d, file_path, sheet_name) ==
    LET sp == _safe_path(d, file_path) IN
    IF ~sp.ok THEN Fail(d, sp.err)
    ELSE LET lw == _load_or_create_workbook(d, sp.path, FALSE) IN
    IF ~lw.ok THEN Fail(d, lw.err)
    ELSE IF Len(sheetnames(lw.wb)) = 1 THEN Fail(d, "LastSheetViolation")
    ELSE IF sheet_name \notin Titles(lw.wb) THEN Fail(d, "SheetNotFound")
    ELSE LET wb == RemoveAt(lw.wb, SheetIndex(lw.wb, sheet_name))
         IN [disk |-> Save(lw.disk, sp.path, wb),
             res |-> [ok |-> TRUE, remaining_sheets |-> sheetnames(wb), saved |-> TRUE]]

delete_sheet(d, file_path, sheet_name) ==
    LET sp == _safe_path(d, file_path) IN
    IF ~sp.ok THEN Fail(d, sp.err)
    ELSE LET lw == _load_or_create_workbook(d, sp.path, FALSE) IN
    IF ~lw.ok THEN Fail(d, lw.err)
    ELSE IF sheet_name \notin Titles(lw.wb) THEN Fail(d, "SheetNotFound")
    ELSE IF Len(sheetnames(lw.wb)) = 1 THEN Fail(d, "LastSheetViolation")
    ELSE LET wb == RemoveAt(lw.wb, SheetIndex(lw.wb, sheet_name))
         IN [disk |-> Save(lw.disk, sp.path, wb),
             res |-> [ok |-> TRUE, remaining_sheets |-> sheetnames(wb), saved |-> TRUE]]

\* The same, counting every cell of the range
clear_range_count_all(d, file_path, sheet_name, cell_range, create_if_missing) ==
    LET o == Open(d, file_path, sheet_name, create_if_missing) IN
    IF ~o.ok THEN Fail(o.disk, o.err)
    ELSE LET cells == Materialize(o.wb[o.idx].cells, Block(cell_range))
             cleared == [p \in DOMAIN cells |->
                           IF p \in Block(cell_range) THEN [cells[p] EXCEPT !.v = None]
                           ELSE cells[p]]
         IN [disk |-> Save(o.disk, o.path, SetCells(o.wb, o.idx, cleared)),
             res |-> [ok |-> TRUE, cleared_cells |-> Cardinality(Block(cell_range)),
                      saved |-> TRUE]]

clear_range(d, file_path, sheet_name, cell_range, create_if_missing) ==
    LET o == Open(d, file_path, sheet_name, create_if_missing) IN
    IF ~o.ok THEN Fail(o.disk, o.err)
    ELSE LET cells == Materialize(o.wb[o.idx].cells, Block(cell_range))
             hit == { p \in Block(cell_range) : cells[p].v # None }
             cleared == [p \in DOMAIN cells |->
                           IF p \in hit THEN [cells[p] EXCEPT !.v = None] ELSE cells[p]]
         IN [disk |-> Save(o.disk, o.path, SetCells(o.wb, o.idx, cleared)),
             res |-> [ok |-> TRUE, cleared_cells |-> Cardinality(hit), saved |-> TRUE]]

\* The same, saving what was formatted before the colour is rejected
format_range_save_first(d, file_path, sheet_name, cell_range, f, create_if_missing) ==
    LET o == Open(d, file_path, sheet_name, create_if_missing) IN
    IF ~o.ok THEN Fail(o.disk, o.err)
    ELSE LET cells == Materialize(o.wb[o.idx].cells, Block(cell_range))
             plain == [f EXCEPT !.fill_hex = Nothing]
             done == [p \in DOMAIN cells |->
                        IF p \in Block(cell_range)
                        THEN FormatCell(cells[p], plain).cell ELSE cells[p]]
             saved == Save(o.disk, o.path, SetCells(o.wb, o.idx, done))
             first == FormatCell(cells[<<cell_range.min_row, cell_range.min_col>>], f)
         IN IF ~first.ok THEN Fail(saved, first.err)
            ELSE [disk |-> Save(o.disk, o.path, SetCells(o.wb, o.idx,
                              [p \in DOMAIN cells |->
                                 IF p \in Block(cell_range)
                                 THEN FormatCell(cells[p], f).cell ELSE cells[p]])),
                  res |-> [ok |-> TRUE, updated_cells |-> Cardinality(Block(cell_range)),
                           saved |-> TRUE]]

\* The loop formats cell after cell; a rejected colour raises at the first
\* cell, before anything is saved
format_range(d, file_path, sheet_name, cell_range, f, create_if_missing) ==
    LET o == Open(d, file_path, sheet_name, create_if_missing) IN
    IF ~o.ok THEN Fail(o.disk, o.err)
    ELSE LET cells == Materialize(o.wb[o.idx].cells, Block(cell_range))
             first == FormatCell(cells[<<cell_range.min_row, cell_range.min_col>>], f)
         IN IF ~first.ok THEN Fail(o.disk, first.err)
            ELSE [disk |-> Save(o.disk, o.path, SetCells(o.wb, o.idx,
                              [p \in DOMAIN cells |->
                                 IF p \in Block(cell_range)
                                 THEN FormatCell(cells[p], f).cell ELSE cells[p]])),
                  res |-> [ok |-> TRUE, updated_cells |-> Cardinality(Block(cell_range)),
                           saved |-> TRUE]]

(***************************************************************************)
(* Inputs                                                                  *)
(***************************************************************************)
\* The largest sheet the model keeps: a call that would put a cell beyond
\* it is not made
MaxRow == 4

MaxCol == 3

\* How many calls a run of each specification makes
PathCalls == 2

BookCalls == 3

CellCalls == 3

\* Paths: /a/b/x.xlsx, /a/b/N.XLSM, /a/b/bad.xls, /a/b/y.XLS, /a/b (the
\* root), /a/b/d.xlsx (a directory), /a/out.xlsx, /a/out.xls,
\* /a/b2/x.xlsx, /a/b/../out.xlsx, /a/b/x.xlsx/y.xlsx,
\* /a/b/x.xlsx/sub/y.xlsx
PIn == << <<"a">>, <<"b">>, <<"x",".","x","l","s","x">> >>

PUpper == << <<"a">>, <<"b">>, <<"N",".","X","L","S","M">> >>

PBadExt == << <<"a">>, <<"b">>, <<"b","a","d",".","x","l","s">> >>

PBadUpper == << <<"a">>, <<"b">>, <<"y",".","X","L","S">> >>

PRoot == << <<"a">>, <<"b">> >>

PDir == << <<"a">>, <<"b">>, <<"d",".","x","l","s","x">> >>

POut == << <<"a">>, <<"o","u","t",".","x","l","s","x">> >>

POutBadExt == << <<"a">>, <<"o","u","t",".","x","l","s">> >>

PSibling == << <<"a">>, <<"b","2">>, <<"x",".","x","l","s","x">> >>

PTraverse == << <<"a">>, <<"b">>, <<".",".">>, <<"o","u","t",".","x","l","s","x">> >>

PBelowFile == PIn \o << <<"y",".","x","l","s","x">> >>

PBelowFileDir == PIn \o << <<"s","u","b">>, <<"y",".","x","l","s","x">> >>

AllPaths == {PIn, PUpper, PBadExt, PBadUpper, PRoot, PDir, POut, POutBadExt,
             PSibling, PTraverse, PBelowFile, PBelowFileDir}

\* Sheet names: "Data", "Report", the empty name, "a/b", 32 characters
NData == <<"D","a","t","a">>

NReport == <<"R","e","p","o","r","t">>

NEmpty == << >>

NSlash == <<"a","/","b">>

NLong == [i \in 1..(MaxSheetNameLen + 1) |-> "x"]

\* Colours: "EAF2FF", "#eaf2ff", "bad", "GGGGGG", "\x0bEAF2FF\n",
\* "EAF2\ufb00\ufb00"
HexGood == <<"E","A","F","2","F","F">>

HexHashLower == <<"#","e","a","f","2","f","f">>

HexShort == <<"b","a","d">>

HexNotHex == <<"G","G","G","G","G","G">>

HexSpaced == <<"U+000B","E","A","F","2","F","F","\n">>

HexLigature == <<"E","A","F","2","U+FB00","U+FB00">>

NoFormat ==
    [bold |-> Nothing, wrap_text |-> Nothing, horizontal |-> Nothing,
     vertical |-> Nothing, number_format |-> Nothing, fill_hex |-> Nothing]

\* The format of the repository's test: bold, wrapped, centred, filled
TestFormat ==
    [NoFormat EXCEPT !.bold = Some(TRUE), !.wrap_text = Some(TRUE),
                     !.horizontal = Some("center"), !.fill_hex = Some(HexGood)]

\* The values of the repository's test
TestValues ==
    << <<Str("name"), Str("value")>>, <<Str("gpu"), Num(123)>>, <<Str("cpu"), Num(456)>> >>

\* What the calls of a specification draw their arguments from
PathInputs ==
    [maxCalls |-> PathCalls, scripted |-> FALSE,
     paths |-> AllPaths,
     names |-> {DefaultTitle, NLong},
     newNames |-> {NData, NEmpty},
     cims |-> BOOLEAN,
     edit_cims |-> BOOLEAN,
     cells |-> {Addr(1, 1)},
     starts |-> {Addr(1, 1)},
     ranges |-> {Range(1, 1, 1, 1)},
     values |-> {Str("x")},
     matrices |-> { << <<Str("x")>> >> },
     idxs |-> {0, 1},
     amounts |-> {1},
     formats |-> {TestFormat,
                  [NoFormat EXCEPT !.fill_hex = Some(HexSpaced)],
                  [NoFormat EXCEPT !.fill_hex = Some(HexLigature)]}]

BookInputs ==
    [maxCalls |-> BookCalls, scripted |-> FALSE,
     paths |-> {PIn},
     names |-> {DefaultTitle, NData, NSlash},
     newNames |-> {DefaultTitle, NData, NReport, NSlash},
     cims |-> BOOLEAN,
     edit_cims |-> BOOLEAN,
     cells |-> {Addr(1, 1)},
     starts |-> {Addr(1, 1)},
     ranges |-> {Range(1, 1, 1, 2)},
     values |-> {Str("name"), None},
     matrices |-> { << <<Num(1), Str("b")>> >> },
     idxs |-> {0, 1},
     amounts |-> {1},
     formats |-> {TestFormat,
                  [NoFormat EXCEPT !.bold = Some(TRUE), !.fill_hex = Some(HexShort)]}]

CellInputs ==
    [maxCalls |-> CellCalls, scripted |-> FALSE,
     paths |-> {PIn},
     names |-> {DefaultTitle},
     newNames |-> {NData},
     cims |-> BOOLEAN,
     edit_cims |-> BOOLEAN,
     cells |-> {Addr(1, 1), Addr(2, 2)},
     starts |-> {Addr(1, 1), Addr(2, 2)},
     ranges |-> {Range(1, 1, 1, 1), Range(1, 1, 2, 2), Range(2, 1, 2, 2), OneCell(2, 2)},
     values |-> {Str("name"), Str(""), Num(123), Bool(TRUE), Bool(FALSE), None},
     matrices |-> { << <<Str("a"), None>>, <<Num(0)>> >>, << >> },
     idxs |-> {1},
     amounts |-> {1},
     formats |-> {[NoFormat EXCEPT !.fill_hex = Some(HexHashLower)],
                  [NoFormat EXCEPT !.fill_hex = Some(HexNotHex)]}]

\* The calls of test_read_write_and_structural_ops, in order
Script ==
    << [op |-> "write_range", file_path |-> PIn, sheet_name |-> NData,
        start_cell |-> Addr(1, 1), values |-> TestValues, create_if_missing |-> TRUE],
       [op |-> "insert_rows", file_path |-> PIn, sheet_name |-> NData,
        idx |-> 2, amount |-> 1, create_if_missing |-> FALSE],
       [op |-> "write_cell", file_path |-> PIn, sheet_name |-> NData,
        cell |-> Addr(2, 1), value |-> Str("inserted"), create_if_missing |-> TRUE],
       [op |-> "insert_columns", file_path |-> PIn, sheet_name |-> NData,
        idx |-> 2, amount |-> 1, create_if_missing |-> FALSE],
       [op |-> "write_cell", file_path |-> PIn, sheet_name |-> NData,
        cell |-> Addr(1, 2), value |-> Str("new_col"), create_if_missing |-> TRUE],
       [op |-> "delete_rows", file_path |-> PIn, sheet_name |-> NData,
        idx |-> 4, amount |-> 1, create_if_missing |-> FALSE],
       [op |-> "delete_columns", file_path |-> PIn, sheet_name |-> NData,
        idx |-> 3, amount |-> 1, create_if_missing |-> FALSE] >>

\* The script's calls with their indices, amounts, cells and values varied
ScriptInputs ==
    [maxCalls |-> Len(Script), scripted |-> TRUE,
     paths |-> {PIn},
     names |-> {NData},
     newNames |-> {NData},
     cims |-> {TRUE},
     edit_cims |-> {FALSE},
     cells |-> {Addr(2, 1), Addr(1, 2)},
     starts |-> {Addr(1, 1), Addr(2, 1), Addr(1, 2)},
     ranges |-> {Range(1, 1, 1, 1)},
     values |-> {Str("inserted"), Str("new_col")},
     matrices |-> {TestValues},
     idxs |-> 1..MaxRow,
     amounts |-> {1, 2},
     formats |-> {TestFormat}]

(***************************************************************************)
(* State machine                                                           *)
(***************************************************************************)
\* Before the first call: the workspace directory, a directory in it, and
\* no workbook
Init ==
    /\ disk = [q \in {<< >>, << <<"a">> >>, PRoot, PDir} |-> Dir]
    /\ call = [op |-> "none"]
    /\ result = [ok |-> TRUE]
    /\ step = 0
    /\ onScript = TRUE

Files(d) == { q \in DOMAIN d : d[q].kind = "file" }

\* No cell of any workbook lies beyond MaxRow x MaxCol
Fits(d) ==
    \A q \in Files(d) : \A i \in 1..Len(d[q].sheets) :
        \A p \in DOMAIN d[q].sheets[i].cells : p[1] <= MaxRow /\ p[2] <= MaxCol

\* One tool call c with outcome out.  A scripted run makes the script's
\* calls in order, each with any arguments of its inputs.
Do(U, c, out) ==
    /\ step < U.maxCalls
    /\ U.scripted => c.op = Script[step + 1].op
    /\ Fits(out.disk)
    /\ disk' = out.disk
    /\ call' = c
    /\ result' = out.res
    /\ step' = step + 1
    /\ onScript' = (onScript /\ U.scripted /\ c = Script[step + 1])

ListSheets(U) ==
    \E p \in U.paths, cim \in U.cims :
        Do(U, [op |-> "list_sheets", file_path |-> p, create_if_missing |-> cim],
           list_sheets(disk, p, cim))

ReadRange(U) ==
    \E p \in U.paths, n \in U.names, r \in U.ranges, cim \in U.cims :
        Do(U, [op |-> "read_range", file_path |-> p, sheet_name |-> n,
               cell_range |-> r, create_if_missing |-> cim],
           read_range(disk, p, n, r, cim))

WriteCell(U) ==
    \E p \in U.paths, n \in U.names, a \in U.cells, v \in U.values, cim \in U.cims :
        Do(U, [op |-> "write_cell", file_path |-> p, sheet_name |-> n,
               cell |-> a, value |-> v, create_if_missing |-> cim],
           write_cell(disk, p, n, a, v, cim))

WriteRange(U) ==
    \E p \in U.paths, n \in U.names, a \in U.starts,
       m \in U.matrices, cim \in U.cims :
        Do(U, [op |-> "write_range", file_path |-> p, sheet_name |-> n,
               start_cell |-> a, values |-> m, create_if_missing |-> cim],
           write_range(disk, p, n, a, m, cim))

InsertRows(U) ==
    \E p \in U.paths, n \in U.names, i \in U.idxs, k \in U.amounts, cim \in U.edit_cims :
        Do(U, [op |-> "insert_rows", file_path |-> p, sheet_name |-> n,
               idx |-> i, amount |-> k, create_if_missing |-> cim],
           insert_rows(disk, p, n, i, k, cim))

DeleteRows(U) ==
    \E p \in U.paths, n \in U.names, i \in U.idxs, k \in U.amounts, cim \in U.edit_cims :
        Do(U, [op |-> "delete_rows", file_path |-> p, sheet_name |-> n,
               idx |-> i, amount |-> k, create_if_missing |-> cim],
           delete_rows(disk, p, n, i, k, cim))

InsertColumns(U) ==
    \E p \in U.paths, n \in U.names, i \in U.idxs, k \in U.amounts, cim \in U.edit_cims :
        Do(U, [op |-> "insert_columns", file_path |-> p, sheet_name |-> n,
               idx |-> i, amount |-> k, create_if_missing |-> cim],
           insert_columns(disk, p, n, i, k, cim))

DeleteColumns(U) ==
    \E p \in U.paths, n \in U.names, i \in U.idxs, k \in U.amounts, cim \in U.edit_cims :
        Do(U, [op |-> "delete_columns", file_path |-> p, sheet_name |-> n,
               idx |-> i, amount |-> k, create_if_missing |-> cim],
           delete_columns(disk, p, n, i, k, cim))

RenameSheet(U) ==
    \E p \in U.paths, old \in U.names, new \in U.newNames :
        Do(U, [op |-> "rename_sheet", file_path |-> p, old_name |-> old,
               new_name |-> new],
           rename_sheet(disk, p, old, new))

DeleteSheet(U) ==
    \E p \in U.paths, n \in U.names :
        Do(U, [op |-> "delete_sheet", file_path |-> p, sheet_name |-> n],
           delete_sheet(disk, p, n))

ClearRange(U) ==
    \E p \in U.paths, n \in U.names, r \in U.ranges, cim \in U.cims :
        Do(U, [op |-> "clear_range", file_path |-> p, sheet_name |-> n,
               cell_range |-> r, create_if_missing |-> cim],
           clear_range(disk, p, n, r, cim))

FormatRange(U) ==
    \E p \in U.paths, n \in U.names, r \in U.ranges, f \in U.formats, cim \in U.cims :
        Do(U, [op |-> "format_range", file_path |-> p, sheet_name |-> n,
               cell_range |-> r, format |-> f, create_if_missing |-> cim],
           format_range(disk, p, n, r, f, cim))

\* Every operation on every kind of path, two calls deep
Next ==
    \/ ListSheets(PathInputs)
    \/ ReadRange(PathInputs)
    \/ WriteCell(PathInputs)
    \/ WriteRange(PathInputs)
    \/ InsertRows(PathInputs)
    \/ DeleteRows(PathInputs)
    \/ InsertColumns(PathInputs)
    \/ DeleteColumns(PathInputs)
    \/ RenameSheet(PathInputs)
    \/ DeleteSheet(PathInputs)
    \/ ClearRange(PathInputs)
    \/ FormatRange(PathInputs)

Spec == Init /\ [][Next]_vars

\* Every operation on one workbook path, with sheets, cells and formats
BookNext ==
    \/ ListSheets(BookInputs)
    \/ ReadRange(BookInputs)
    \/ WriteCell(BookInputs)
    \/ WriteRange(BookInputs)
    \/ InsertRows(BookInputs)
    \/ DeleteRows(BookInputs)
    \/ InsertColumns(BookInputs)
    \/ DeleteColumns(BookInputs)
    \/ RenameSheet(BookInputs)
    \/ DeleteSheet(BookInputs)
    \/ ClearRange(BookInputs)
    \/ FormatRange(BookInputs)

BookSpec == Init /\ [][BookNext]_vars

\* The twelve tools again, with many cells, ranges and values on one file
CellNext ==
    \/ ListSheets(CellInputs)
    \/ ReadRange(CellInputs)
    \/ WriteCell(CellInputs)
    \/ WriteRange(CellInputs)
    \/ InsertRows(CellInputs)
    \/ DeleteRows(CellInputs)
    \/ InsertColumns(CellInputs)
    \/ DeleteColumns(CellInputs)
    \/ RenameSheet(CellInputs)
    \/ DeleteSheet(CellInputs)
    \/ ClearRange(CellInputs)
    \/ FormatRange(CellInputs)

CellSpec == Init /\ [][CellNext]_vars

\* The test's seven calls in order, each with varied arguments
ScriptNext ==
    \/ WriteRange(ScriptInputs)
    \/ InsertRows(ScriptInputs)
    \/ WriteCell(ScriptInputs)
    \/ InsertColumns(ScriptInputs)
    \/ DeleteRows(ScriptInputs)
    \/ DeleteColumns(ScriptInputs)

ScriptSpec == Init /\ [][ScriptNext]_vars

(***************************************************************************)
(* What the claims speak of                                                *)
(***************************************************************************)
\* The resolved path a call names
Target(c) == Resolve(c.file_path)

\* "Neither the workspace root nor nested under it"
Outside(p) ==
    /\ Resolve(p) # Resolve(EnvRoot)
    /\ \A k \in 0..Len(Resolve(p)) : SubSeq(Resolve(p), 1, k) # Resolve(EnvRoot)

\* "An extension other than .xlsx or .xlsm, compared case-insensitively"
OtherExtension(p) ==
    Lower(Suffix(Resolve(p))) \notin { <<".","x","l","s","x">>, <<".","x","l","s","m">> }

IsFile(d, q) == q \in DOMAIN d /\ d[q].kind = "file"

\* The sheet names of the workbook file at q
NamesOn(d, q) == { d[q].sheets[i].title : i \in 1..Len(d[q].sheets) }

\* What a reader finds at row r, column c of a sheet of the file at q: the
\* cell stored there, or an empty cell where none is stored or the sheet
\* or the file is missing
CellOn(d, q, name, r, c) ==
    IF IsFile(d, q) /\ name \in NamesOn(d, q)
    THEN LET fs == d[q].sheets[CHOOSE i \in 1..Len(d[q].sheets) :
                                  d[q].sheets[i].title = name]
         IN IF <<r, c>> \in DOMAIN fs.cells THEN ParseCell(fs.cells[<<r, c>>])
            ELSE EmptyCell
    ELSE EmptyCell

Called == call.op # "none"

Failed(kind) == ~result.ok /\ result.err = kind

\* C1 (as claimed): a call on a path outside the workspace fails with
\* OutOfWorkspace, whatever the operation and its other arguments.
C1_OutsideFailsOutOfWorkspace ==
    (Called /\ Outside(call.file_path)) => Failed("OutOfWorkspace")

\* C2 (as claimed, for paths inside the workspace, where the extension is
\* the first check to fail): a call on a path with another extension fails
\* with UnsupportedExtension, whatever the operation and its other
\* arguments, and no file is created at that path.
C2_OtherExtensionFailsUnsupported ==
    (Called /\ ~Outside(call.file_path) /\ OtherExtension(call.file_path))
        => (Failed("UnsupportedExtension") /\ ~IsFile(disk, Target(call)))

\* C3: every workbook file on disk holds at least one sheet.
C3_AtLeastOneSheet ==
    \A q \in Files(disk) : Len(disk[q].sheets) >= 1

\* C3 witness: a sheet was deleted and exactly one is left
C3_Witness ==
    /\ call.op = "delete_sheet" /\ result.ok
    /\ Len(disk[Target(call)].sheets) = 1

\* The workbook at the call's path has exactly one sheet
OneSheet(d, c) == IsFile(d, Target(c)) /\ Len(d[Target(c)].sheets) = 1

\* C4 (as claimed): delete_sheet on a workbook with exactly one sheet fails
\* with LastSheetViolation for every sheet name and changes nothing.
C4_AlwaysLastSheetViolation ==
    [][(call'.op = "delete_sheet" /\ OneSheet(disk, call'))
           => (~result'.ok /\ result'.err = "LastSheetViolation" /\ disk' = disk)]_vars

\* C4 (amended): delete_sheet on a workbook with exactly one sheet always
\* fails and changes nothing: with LastSheetViolation when sheet_name names
\* that sheet, with SheetNotFound when it names no sheet.
C4_OneSheetDeleteFails ==
    [][(call'.op = "delete_sheet" /\ OneSheet(disk, call'))
           => /\ ~result'.ok
              /\ result'.err = IF call'.sheet_name \in NamesOn(disk, Target(call'))
                               THEN "LastSheetViolation" ELSE "SheetNotFound"
              /\ disk' = disk]_vars

\* C4 witness: the one-sheet workbook, and a name that is not its sheet's
C4_Witness ==
    /\ call.op = "delete_sheet" /\ OneSheet(disk, call)
    /\ call.sheet_name \notin NamesOn(disk, Target(call))
    /\ Failed("SheetNotFound")

Covers(rng, cell) ==
    /\ rng.min_row <= cell.row /\ cell.row <= rng.max_row
    /\ rng.min_col <= cell.col /\ cell.col <= rng.max_col

\* C5 (as claimed): after a successful write_cell of a text, a number or a
\* boolean, a read_range over any corner-to-corner range covering the cell
\* (a fresh call, which reloads the file) returns that value at the
\* cell's position.
C5_WriteThenReadReturnsValue ==
    (call.op = "write_cell" /\ result.ok /\ call.value # None)
        => \A rng \in CellInputs.ranges :
               (rng.colon /\ Covers(rng, call.cell)) =>
                   LET rd == read_range(disk, call.file_path, call.sheet_name,
                                        rng, FALSE).res
                   IN /\ rd.ok
                      /\ rd.values[call.cell.row - rng.min_row + 1]
                                  [call.cell.col - rng.min_col + 1] = call.value

\* The cells of a range that hold a value on disk d
NonEmptyIn(d, c) ==
    { p \in Block(c.cell_range) :
        CellOn(d, Target(c), c.sheet_name, p[1], p[2]).v # None }

\* C6: a successful clear_range returns the number of cells of the range
\* that held a value before the call and leaves every cell of the range
\* empty; cleared again at once, the same range gives cleared_cells = 0.
C6_ClearCountsNonEmpty ==
    [][/\ (call'.op = "clear_range" /\ result'.ok)
            => /\ result'.cleared_cells = Cardinality(NonEmptyIn(disk, call'))
               /\ NonEmptyIn(disk', call') = {}
       /\ (call.op = "clear_range" /\ result.ok /\ call'.op = "clear_range"
           /\ result'.ok /\ call'.file_path = call.file_path
           /\ call'.sheet_name = call.sheet_name
           /\ call'.cell_range = call.cell_range)
            => result'.cleared_cells = 0]_vars

\* C6 witness: a range of four cells was cleared, one to three of which
\* held a value
C6_Witness ==
    /\ call.op = "clear_range" /\ result.ok
    /\ Cardinality(Block(call.cell_range)) = 4
    /\ result.cleared_cells \in 1..3

\* C7: rename_sheet of an existing sheet to a name a sheet of the workbook
\* already has fails with SheetNameCollision and leaves the workbook as it
\* was (sheet list, order, contents).
C7_RenameCollisionFails ==
    [][(/\ call'.op = "rename_sheet" /\ IsFile(disk, Target(call'))
        /\ call'.old_name \in NamesOn(disk, Target(call'))
        /\ call'.new_name \in NamesOn(disk, Target(call')))
           => (~result'.ok /\ result'.err = "SheetNameCollision" /\ disk' = disk)]_vars

\* C7 witness: two sheets, and one renamed to the other's name
C7_Witness ==
    /\ call.op = "rename_sheet" /\ Failed("SheetNameCollision")
    /\ call.old_name # call.new_name
    /\ {call.old_name, call.new_name} \subseteq NamesOn(disk, Target(call))

\* C8 (as claimed): list_sheets and read_range leave the disk unchanged,
\* with any arguments: they create no file and change none.
C8_ReadsChangeNothing ==
    [][call'.op \in {"list_sheets", "read_range"} => disk' = disk]_vars

\* C8 (amended): list_sheets and read_range change nothing that exists on
\* disk; the one effect either can have is to create, with
\* create_if_missing = true, a workbook with the single sheet "Sheet" at
\* a path where there was no file.
C8_ReadsChangeNoExistingFile ==
    [][call'.op \in {"list_sheets", "read_range"}
          => /\ \A q \in DOMAIN disk : q \in DOMAIN disk' /\ disk'[q] = disk[q]
             /\ disk' # disk
                  => /\ call'.create_if_missing
                     /\ Target(call') \notin DOMAIN disk
                     /\ DOMAIN disk' = DOMAIN disk \cup {Target(call')}
                     /\ disk'[Target(call')] =
                          [kind |-> "file",
                           sheets |-> << [title |-> <<"S","h","e","e","t">>,
                                          cells |-> [p \in {} |-> 0]] >>]]_vars

\* C8 witness: read_range with create_if_missing read a sheet the workbook
\* on disk does not have
C8_Witness ==
    /\ call.op = "read_range" /\ result.ok /\ call.create_if_missing
    /\ IsFile(disk, Target(call))
    /\ call.sheet_name \notin NamesOn(disk, Target(call))

\* The cells of the call's sheet before (d) and after (e) a structural
\* edit, row by row and column by column, past the sheet's last row
ShiftedRows(d, e, c, from(_, _)) ==
    \A r \in 1..(MaxRow + 2), k \in 1..(MaxCol + 2) :
        CellOn(e, Target(c), c.sheet_name, r, k) =
            IF from(r, k) = << >> THEN EmptyCell
            ELSE CellOn(d, Target(c), c.sheet_name, from(r, k)[1], from(r, k)[2])

InsertedRowsFrom(c, r, k) ==
    IF r < c.idx THEN <<r, k>>
    ELSE IF r < c.idx + c.amount THEN << >> ELSE <<r - c.amount, k>>

DeletedRowsFrom(c, r, k) == IF r < c.idx THEN <<r, k>> ELSE <<r + c.amount, k>>

InsertedColsFrom(c, r, k) ==
    IF k < c.idx THEN <<r, k>>
    ELSE IF k < c.idx + c.amount THEN << >> ELSE <<r, k - c.amount>>

DeletedColsFrom(c, r, k) == IF k < c.idx THEN <<r, k>> ELSE <<r, k + c.amount>>

Renumbered(d, e, c) ==
    /\ c.op = "insert_rows" =>
         LET from(r, k) == InsertedRowsFrom(c, r, k) IN ShiftedRows(d, e, c, from)
    /\ c.op = "delete_rows" =>
         LET from(r, k) == DeletedRowsFrom(c, r, k) IN ShiftedRows(d, e, c, from)
    /\ c.op = "insert_columns" =>
         LET from(r, k) == InsertedColsFrom(c, r, k) IN ShiftedRows(d, e, c, from)
    /\ c.op = "delete_columns" =>
         LET from(r, k) == DeletedColsFrom(c, r, k) IN ShiftedRows(d, e, c, from)

\* What the test reads at the end: A1:C4 of sheet "Data"
ScriptEnd(d) ==
    /\ CellOn(d, PIn, NData, 1, 1).v = Str("name")
    /\ CellOn(d, PIn, NData, 1, 2).v = Str("new_col")
    /\ CellOn(d, PIn, NData, 1, 3).v = None
    /\ CellOn(d, PIn, NData, 2, 1).v = Str("inserted")

\* C9: a structural edit renumbers and drops nothing but the deleted rows
\* or columns: an insertion at idx moves every cell at idx or beyond by
\* amount and leaves the inserted rows (columns) empty, a deletion removes
\* rows (columns) idx..idx+amount-1 and moves what follows up; the test's
\* seven calls end with A1 = "name", B1 = "new_col", C1 empty,
\* A2 = "inserted".
C9_StructuralEditsRenumber ==
    [][/\ result'.ok => Renumbered(disk, disk', call')
       /\ (onScript' /\ step' = Len(Script)) => ScriptEnd(disk')]_vars

\* C9 witness: the test's seven calls were made, the last one a deletion
C9_Witness ==
    /\ onScript /\ step = Len(Script)
    /\ call.op = "delete_columns" /\ result.ok

ValidationErrors ==
    {"InvalidSheetName", "SheetNotFound", "SheetNameCollision",
     "LastSheetViolation", "InvalidIndex", "InvalidColor"}

\* C10: a call on an existing workbook file that fails with a validation
\* error leaves the disk exactly as it was.
C10_FailedCallChangesNothing ==
    [][(/\ IsFile(disk, Target(call'))
        /\ ~result'.ok /\ result'.err \in ValidationErrors)
           => disk' = disk]_vars

\* C10 witness: format_range with create_if_missing on a sheet the
\* workbook does not have, bold set and the colour rejected
C10_Witness ==
    /\ call.op = "format_range" /\ Failed("InvalidColor")
    /\ call.create_if_missing /\ call.format.bold # << >>
    /\ IsFile(disk, Target(call))
    /\ call.sheet_name \notin NamesOn(disk, Target(call))

====
